---------------------------- MODULE Spec2Model ----------------------------
(***************************************************************************)
(* Model of backend/login-backend/server.js: an Express server with        *)
(*   POST /login, GET /protected-endpoint, PUT /update-profile             *)
(* over the flat file users.json, with JWT bearer tokens.                  *)
(*                                                                         *)
(* Node runs one callback at a time, but an async handler gives up the     *)
(* event loop at every `await`.  Each handler is therefore cut at its      *)
(* awaits: the part before `await bcrypt.compare` / `await bcrypt.hash`    *)
(* is one atomic action, the continuation after it is another, and other   *)
(* requests may run in between.                                            *)
(*                                                                         *)
(* The environment: one client per username, which sends its next request  *)
(* to /login or /update-profile only after the previous one was answered   *)
(* (requests of different clients overlap freely); anyone may call the     *)
(* protected routes with no token, a forged one or one a client holds.     *)
(***************************************************************************)
EXTENDS Integers, Sequences, FiniteSets, TLC

VARIABLES
    file,          \* content of users.json
    now,           \* Date.now(), in milliseconds
    pending,       \* per client: its request suspended at an `await`, if any
    held,          \* per user: the token the client holds, when it got it, and
                   \* whether the user's password was changed since (stale)
    lastSet,       \* per user: newPassword of the last update answered 200
    horizon,       \* the last instant at which this run looks at the clock
    resp           \* what the last step sent back (route "none": nothing)

vars == <<file, now, pending, held, lastSet, horizon, resp>>

----------------------------------------------------------------------------
(* Bounds of the model *)

\* hours the clock is watched for
MaxHours == 1

(* Program constants *)

\* jwt.sign(..., { expiresIn: '1h' }): 3600 seconds
ExpiresIn == 3600
\* Date.now() is in milliseconds, JWT timestamps are in whole seconds
MsPerSec == 1000
\* bcrypt.hash(newPassword, 10)
SaltRounds == 10

JWT_SECRET == "supersecretkey"

----------------------------------------------------------------------------
(* Values *)

Usernames == {"alice", "bob"}

\* JavaScript `undefined` (a field absent from the JSON body or record)
Undefined == "<undefined>"
\* a JSON value that is not a string (a number)
NotAString == "<number>"

Passwords == {"p1", "p2"}

IsString(v) == v \notin {Undefined, NotAString}

\* JavaScript truthiness of a body field
Truthy(v) == v \notin {Undefined, ""}

\* The value of a record's `password` field.
\*   kind "bcrypt": a 60-character bcrypt hash of `of` with cost `cost`
\*   kind "string": a string that is no bcrypt hash
\*   kind "undefined": the field is missing
BcryptHash(s, rounds) == [kind |-> "bcrypt", cost |-> rounds, of |-> s]
PlainString == [kind |-> "string", cost |-> 0, of |-> ""]
NoPassword == [kind |-> "undefined", cost |-> 0, of |-> ""]

User(u, h, e) == [username |-> u, password |-> h, email |-> e]
NoUser == User(Undefined, NoPassword, Undefined)

\* users.json: readable as a JSON array of records, or missing / unparseable
Readable(us) == [ok |-> TRUE, users |-> us]
Unreadable == [ok |-> FALSE, users |-> <<>>]

NoJwt == [username |-> Undefined, iat |-> 0, exp |-> 0, sig |-> "none"]
NoHeld == [token |-> NoJwt, at |-> 0, stale |-> FALSE]

\* The Authorization header, split at spaces; <<>> is no header at all.
NoHeader == <<>>
Bearer(t) == <<"Bearer", t>>

----------------------------------------------------------------------------
(* Library functions, as the handlers use them *)

\* (mutant) a list made up when the file cannot be read
readUsersOrDefault(f) ==
    IF f.ok THEN f.users
    ELSE <<User("alice", BcryptHash("p1", SaltRounds), "e1")>>

\* readUsers: the parsed array, or [] when the file cannot be read or parsed
readUsers(f) == IF f.ok THEN f.users ELSE <<>>

\* (mutant) the last match instead of the first
findLastIndex(users, username) ==
    IF \E i \in 1..Len(users) : users[i].username = username
    THEN CHOOSE i \in 1..Len(users) :
            /\ users[i].username = username
            /\ \A j \in (i + 1)..Len(users) : users[j].username # username
    ELSE 0

\* (mutant) the first record when there is no match
findIndexOrFirst(users, username) ==
    IF \E i \in 1..Len(users) : users[i].username = username
    THEN CHOOSE i \in 1..Len(users) :
            /\ users[i].username = username
            /\ \A j \in 1..(i - 1) : users[j].username # username
    ELSE IF Len(users) > 0 THEN 1 ELSE 0

\* users.findIndex(user => user.username === username), 1-based; 0 for -1.
\* users.find(...) is the record at that index.
findIndex(users, username) ==
    IF \E i \in 1..Len(users) : users[i].username = username
    THEN CHOOSE i \in 1..Len(users) :
            /\ users[i].username = username
            /\ \A j \in 1..(i - 1) : users[j].username # username
    ELSE 0

\* bcrypt.compare(s, hash): rejects unless both are strings, is false for a
\* string that is no bcrypt hash, and otherwise re-hashes s and compares.
compare(s, hash) ==
    IF ~IsString(s) \/ hash.kind = "undefined" THEN "throw"
    ELSE IF hash.kind = "bcrypt" /\ hash.of = s THEN "true"
    ELSE "false"

\* bcrypt.hash(s, 10): rejects unless s is a string.  The random salt is
\* left out: compare does not depend on it.
hash(s) == BcryptHash(s, SaltRounds)

\* (mutant) the record is rebuilt from username and password alone
setPasswordDropEmail(users, userIndex, hashedPassword) ==
    [users EXCEPT ![userIndex] =
        [username |-> users[userIndex].username, password |-> hashedPassword,
         email |-> Undefined]]

\* users[userIndex].password = hashedPassword
setPassword(users, userIndex, hashedPassword) ==
    [users EXCEPT ![userIndex].password = hashedPassword]

\* jwt.sign({ username }, JWT_SECRET, { expiresIn: '1h' }) at time t:
\* iat is the clock in whole seconds, exp = iat + 3600.
sign(username, t) ==
    [username |-> username, iat |-> t \div MsPerSec,
     exp |-> (t \div MsPerSec) + ExpiresIn, sig |-> JWT_SECRET]

\* (mutant) a token is still good in the second it expires in
verifyInclusive(token, t) ==
    /\ token.sig = JWT_SECRET
    /\ (t \div MsPerSec) <= token.exp

\* (mutant) the signature is not checked
verifyAnyKey(token, t) == (t \div MsPerSec) < token.exp

\* jwt.verify(token, JWT_SECRET) at time t: the signature must be made with
\* the secret and the clock in whole seconds must be below exp.
verify(token, t) ==
    /\ token.sig = JWT_SECRET
    /\ (t \div MsPerSec) < token.exp

\* authHeader && authHeader.split(' ')[1]
tokenOf(header) == IF Len(header) >= 2 THEN header[2] ELSE NoJwt

\* (mutant) the token's user must have a record
authenticateTokenAndUser(header, t) ==
    IF tokenOf(header) = NoJwt THEN 401
    ELSE IF ~verify(tokenOf(header), t) THEN 403
    ELSE IF findIndex(readUsers(file), tokenOf(header).username) = 0 THEN 403
    ELSE 200

\* authenticateToken: 401 without a token, 403 when verification fails,
\* otherwise next() (written 200 here) with req.user = the payload.
authenticateToken(header, t) ==
    IF tokenOf(header) = NoJwt THEN 401
    ELSE IF ~verify(tokenOf(header), t) THEN 403
    ELSE 200

----------------------------------------------------------------------------
(* Events.  `resp` is what the step just taken sent to its client; `req`    *)
(* repeats the request and what the handler read, so that a response can be *)
(* compared with its own request.  status 0: nothing was sent.  `resumed`   *)
(* tells the continuation after an await from the handler's first part.     *)

NoReq ==
    [username |-> Undefined, password |-> Undefined, newPassword |-> Undefined,
     header |-> NoHeader, issuedAt |-> 0, stale |-> FALSE,
     users |-> <<>>, userIndex |-> 0, user |-> NoUser, seen |-> Undefined]

NoResp ==
    [route |-> "none", resumed |-> FALSE, status |-> 0, message |-> "",
     token |-> NoJwt,
     user |-> [username |-> Undefined, email |-> Undefined],
     payload |-> NoJwt, req |-> NoReq]

\* res.status(s).json({ message: m }), res.sendStatus(s) with m = ""
Reply(route, s, m, rq) ==
    [NoResp EXCEPT !.route = route, !.status = s, !.message = m, !.req = rq]

\* The handler reached an await: it is suspended and nothing is sent yet.
Awaiting(route, rq) ==
    [NoResp EXCEPT !.route = route, !.message = "await", !.req = rq]

\* The handler threw after an await: the promise is rejected, Express 4
\* does not see it, and nothing is sent.
Threw(route, rq) ==
    [NoResp EXCEPT !.route = route, !.message = "unhandled rejection", !.req = rq]

\* No request of client u is suspended.
Idle == [kind |-> "none", req |-> NoReq]

----------------------------------------------------------------------------
(* POST /login *)

\* lines 44-51: read the file, find the user, 400 if there is none;
\* otherwise suspend at `await bcrypt.compare`.
LoginStart(username, password) ==
    LET users == readUsers(file)
        i == findIndex(users, username)
        rq == [NoReq EXCEPT !.username = username, !.password = password,
                            !.user = IF i = 0 THEN NoUser ELSE users[i],
                            !.seen = lastSet[username]]
    IN  /\ pending[username] = Idle
        /\ UNCHANGED <<file, now, held, lastSet, horizon>>
        /\ IF i = 0
           THEN /\ resp' = Reply("login", 400, "Invalid username or password", rq)
                /\ UNCHANGED pending
           ELSE /\ pending' = [pending EXCEPT ![username] =
                                  [kind |-> "login", req |-> rq]]
                /\ resp' = Awaiting("login", rq)

\* lines 53-65: the comparison's outcome, then the token.
LoginFinish(c) ==
    LET rq == pending[c].req
        user == rq.user
        isMatch == compare(rq.password, user.password)
        token == sign(user.username, now)
    IN  /\ pending[c].kind = "login"
        /\ pending' = [pending EXCEPT ![c] = Idle]
        /\ UNCHANGED <<file, now, lastSet, horizon>>
        /\ CASE isMatch = "throw" ->
                   /\ resp' = [Threw("login", rq) EXCEPT !.resumed = TRUE]
                   /\ UNCHANGED held
             [] isMatch = "false" ->
                   /\ resp' = [Reply("login", 400, "Invalid username or password", rq)
                                 EXCEPT !.resumed = TRUE]
                   /\ UNCHANGED held
             [] isMatch = "true" ->
                   /\ resp' = [Reply("login", 200, "", rq) EXCEPT
                                 !.resumed = TRUE, !.token = token,
                                 !.user = [username |-> user.username,
                                           email |-> user.email]]
                   /\ held' = [held EXCEPT ![user.username] =
                                  [token |-> token, at |-> now, stale |-> FALSE]]

----------------------------------------------------------------------------
(* Authorization headers a client can send *)

Forged == [username |-> "alice", iat |-> now \div MsPerSec,
           exp |-> (now \div MsPerSec) + ExpiresIn, sig |-> "another key"]

\* header: the Authorization header; issuedAt: when /login issued its token
Credentials ==
    {[header |-> NoHeader, issuedAt |-> 0, stale |-> FALSE],
     [header |-> <<"Bearer">>, issuedAt |-> 0, stale |-> FALSE],
     [header |-> Bearer(Forged), issuedAt |-> 0, stale |-> FALSE]}
    \cup {[header |-> Bearer(held[u].token), issuedAt |-> held[u].at,
           stale |-> held[u].stale] :
             u \in {v \in Usernames : held[v] # NoHeld}}

----------------------------------------------------------------------------
(* GET /protected-endpoint *)

\* lines 29-40 and 69-71
ProtectedEndpoint(cred) ==
    LET s == authenticateToken(cred.header, now)
        rq == [NoReq EXCEPT !.header = cred.header, !.issuedAt = cred.issuedAt,
                            !.stale = cred.stale]
    IN  /\ resp' = IF s # 200 THEN Reply("protected", s, "", rq)
                   ELSE [Reply("protected", 200, "This is a protected route", rq)
                            EXCEPT !.payload = tokenOf(cred.header)]
        /\ UNCHANGED <<file, now, pending, held, lastSet, horizon>>

----------------------------------------------------------------------------
(* PUT /update-profile *)

\* lines 29-40 and 75-86, and 92-93 when newPassword is falsy: authenticate,
\* read the file, find the caller's record, 404 if there is none; with a
\* newPassword suspend at `await bcrypt.hash`, without one rewrite the file
\* at once.
UpdateProfileStart(cred, newPassword) ==
    LET s == authenticateToken(cred.header, now)
        username == tokenOf(cred.header).username
        users == readUsers(file)
        i == findIndex(users, username)
        rq == [NoReq EXCEPT !.header = cred.header, !.issuedAt = cred.issuedAt,
                            !.stale = cred.stale, !.newPassword = newPassword]
        \* what the suspended handler keeps
        kept == [NoReq EXCEPT !.newPassword = newPassword, !.username = username,
                              !.users = users, !.userIndex = i]
        rq2 == [kept EXCEPT !.header = cred.header, !.issuedAt = cred.issuedAt,
                            !.stale = cred.stale]
    IN  IF s # 200
        THEN /\ resp' = Reply("update", s, "", rq)
             /\ UNCHANGED <<file, now, pending, held, lastSet, horizon>>
        ELSE /\ pending[username] = Idle
             /\ UNCHANGED <<now, held, lastSet, horizon>>
             /\ IF i = 0
                THEN /\ resp' = Reply("update", 404, "User not found", rq2)
                     /\ UNCHANGED <<file, pending>>
                ELSE IF Truthy(newPassword)
                THEN /\ pending' = [pending EXCEPT ![username] =
                                       [kind |-> "update", req |-> kept]]
                     /\ resp' = Awaiting("update", rq2)
                     /\ UNCHANGED file
                ELSE /\ file' = Readable(users)
                     /\ resp' = Reply("update", 200, "Profile updated successfully", rq2)
                     /\ UNCHANGED pending

\* lines 87-93: the hash is ready; set it in the array read before the
\* await and write that array over the file.
UpdateProfileFinish(c) ==
    LET rq == pending[c].req
    IN  /\ pending[c].kind = "update"
        /\ pending' = [pending EXCEPT ![c] = Idle]
        /\ UNCHANGED <<now, horizon>>
        /\ IF ~IsString(rq.newPassword)
           THEN /\ resp' = [Threw("update", rq) EXCEPT !.resumed = TRUE]
                /\ UNCHANGED <<file, lastSet, held>>
           ELSE /\ file' = Readable(setPassword(rq.users, rq.userIndex,
                                                hash(rq.newPassword)))
                /\ resp' = [Reply("update", 200, "Profile updated successfully", rq)
                              EXCEPT !.resumed = TRUE]
                /\ lastSet' = [lastSet EXCEPT ![rq.username] = rq.newPassword]
                /\ held' = IF held[rq.username] = NoHeld THEN held
                           ELSE [held EXCEPT ![rq.username].stale = TRUE]

----------------------------------------------------------------------------
(* The clock *)

\* The instants the clock is looked at: the start and every full hour
\* after it, on the second and half a second later.
Instants ==
    {h * ExpiresIn * MsPerSec + ms : h \in 0..MaxHours, ms \in {0, 500}}

LastInstant == CHOOSE t \in Instants : \A x \in Instants : x <= t

Tick(t) ==
    /\ t \in Instants
    /\ t > now
    /\ t <= horizon
    /\ now' = t
    /\ resp' = NoResp
    /\ UNCHANGED <<file, pending, held, lastSet, horizon>>

----------------------------------------------------------------------------
(* Initial states: the server has just started.  users.json is whatever was *)
(* put there (the server never creates it).  bob may hold a token issued    *)
(* just before the restart (tokens outlive the process: the secret is the   *)
(* same) although the file has no record of him.  Runs on a file with two   *)
(* records explore the overlap of requests at one instant; runs on a        *)
(* smaller file also let the clock advance.                                 *)

Alice1 == User("alice", BcryptHash("p1", SaltRounds), "e1")
Alice2 == User("alice", BcryptHash("p2", SaltRounds), "e2")
Bob2 == User("bob", BcryptHash("p2", SaltRounds), "e2")

InitFiles ==
    {Unreadable, Readable(<<>>), Readable(<<Alice1>>), Readable(<<Alice1, Bob2>>),
     Readable(<<Alice1, Alice2>>),
     Readable(<<User("alice", PlainString, "e1"), User("bob", NoPassword, "e2")>>)}

Init ==
    /\ file \in InitFiles
    /\ now = 0
    /\ pending = [u \in Usernames |-> Idle]
    /\ held \in {[u \in Usernames |-> NoHeld],
                 [u \in Usernames |-> IF u = "bob" /\ Len(readUsers(file)) <= 1
                                      THEN [token |-> sign("bob", 0), at |-> 0, stale |-> FALSE]
                                      ELSE NoHeld]}
    /\ lastSet = [u \in Usernames |-> Undefined]
    /\ horizon = IF Len(readUsers(file)) > 1 THEN 0 ELSE LastInstant
    /\ resp = NoResp

Next ==
    \/ \E u \in Usernames, pw \in Passwords \cup {Undefined} : LoginStart(u, pw)
    \/ \E c \in Usernames : LoginFinish(c)
    \/ \E c \in Credentials : ProtectedEndpoint(c)
    \/ \E c \in Credentials, np \in Passwords \cup {Undefined, "", NotAString} :
          UpdateProfileStart(c, np)
    \/ \E c \in Usernames : UpdateProfileFinish(c)
    \/ \E t \in Instants : Tick(t)

Spec == Init /\ [][Next]_vars

----------------------------------------------------------------------------
(* Vocabulary of the properties, stated without the handlers' helpers *)

\* the records of the file as it is now (none when it cannot be read)
Records == IF file.ok THEN file.users ELSE <<>>

\* us[i] is the first record of us with username u
FirstOf(us, i, u) ==
    /\ i \in 1..Len(us)
    /\ us[i].username = u
    /\ \A j \in 1..(i - 1) : us[j].username # u

Known(us, u) == \E i \in 1..Len(us) : us[i].username = u

\* password pw matches the stored password field h
Matches(pw, h) == IsString(pw) /\ h.kind = "bcrypt" /\ h.of = pw

\* the response just sent is that of a request to `route`
Answered(route) == resp.route = route /\ resp.message # "await"

\* the request just handled carried a token
HasToken == Len(resp.req.header) >= 2
Presented == resp.req.header[2]

\* the request just handled passed authenticateToken
Accepted == resp.status \notin {401, 403}

\* the step just taken is the first part of a request to a protected route
Gated == resp.route \in {"protected", "update"} /\ ~resp.resumed

Hour == ExpiresIn * MsPerSec

----------------------------------------------------------------------------
(* C1 *)

\* C1: POST /login issues a token exactly when the file it read holds a
\* record with the submitted username and the submitted password matches
\* the hash of the first such record; the token carries that record's
\* username, the response that record's username and email.
C1_LoginIssuesTokenIffMatch ==
    /\ (resp.route = "login" /\ ~resp.resumed) =>
          \* the file has not changed since this step read it
          /\ resp.req.user = NoUser <=> ~Known(Records, resp.req.username)
          /\ resp.req.user # NoUser =>
                \E i \in 1..Len(Records) :
                    /\ FirstOf(Records, i, resp.req.username)
                    /\ resp.req.user = Records[i]
          /\ resp.token = NoJwt /\ resp.status # 200
          /\ resp.req.user # NoUser => resp.message = "await"
    /\ (resp.route = "login" /\ resp.resumed) =>
          /\ resp.status = 200 <=> Matches(resp.req.password, resp.req.user.password)
          /\ resp.token # NoJwt <=> resp.status = 200
          /\ resp.status = 200 =>
                /\ resp.token.username = resp.req.user.username
                /\ resp.token.sig = JWT_SECRET
                /\ resp.user = [username |-> resp.req.user.username,
                                email |-> resp.req.user.email]
                /\ resp.req.user.username = resp.req.username

\* a login succeeds on a file with two records of that username
C1_Witness ==
    /\ resp.route = "login" /\ resp.status = 200
    /\ Len(Records) = 2
    /\ Records[1].username = resp.req.username
    /\ Records[2].username = resp.req.username

----------------------------------------------------------------------------
(* C2 *)

\* C2: a POST /login whose credentials do not match (no record with the
\* username, or a record whose hash the submitted password does not match)
\* is answered 400 'Invalid username or password', the same in both cases,
\* and no token is issued.
C2_MismatchIs400 ==
    (/\ Answered("login")
     /\ \/ resp.req.user = NoUser
        \/ ~Matches(resp.req.password, resp.req.user.password))
    => /\ resp.status = 400
       /\ resp.message = "Invalid username or password"
       /\ resp.token = NoJwt

----------------------------------------------------------------------------
(* C3 *)

\* what the gate answers, and what it lets through
C3_Gate ==
    Gated =>
       /\ ~HasToken => resp.status = 401
       /\ (HasToken /\ ~(/\ Presented.sig = JWT_SECRET
                         /\ now < Presented.exp * MsPerSec))
             => resp.status = 403
       /\ Accepted => /\ HasToken
                      /\ Presented.sig = JWT_SECRET
                      /\ now < Presented.exp * MsPerSec
       /\ ~Accepted => resp.message = "" /\ resp.payload = NoJwt

\* a refused request leaves the file and the suspended handlers alone
C3_Refused == resp'.status \in {401, 403} => file' = file /\ pending' = pending

\* C3: the handlers of GET /protected-endpoint and PUT /update-profile run
\* only for a request whose token was signed with the server secret and
\* has not expired; without a token the answer is 401, with a token that
\* fails verification 403, and in neither case does the handler run
\* (nothing is suspended, nothing else is answered) or the file change.
C3_GatedRoutes == []C3_Gate /\ [][C3_Refused]_vars

\* update-profile refuses a token of this server that has expired
C3_Witness ==
    /\ resp.route = "update" /\ resp.status = 403
    /\ HasToken /\ Presented.sig = JWT_SECRET

----------------------------------------------------------------------------
(* C4 *)

\* first record of user u in the file holds the hash of password pw
Stored(u, pw) ==
    \E i \in 1..Len(Records) :
        FirstOf(Records, i, u) /\ Matches(pw, Records[i].password)

\* C4: requests are handled one at a time, nothing runs between the read
\* of the file and its rewrite in PUT /update-profile: after overlapping
\* updates by different users every password change answered 200 is in
\* the file (no update is lost).
C4_NoLostUpdate ==
    \A u \in Usernames : lastSet[u] # Undefined => Stored(u, lastSet[u])

----------------------------------------------------------------------------
(* C5 *)

\* C5: a PUT /update-profile answered 200 changes at most the password
\* hash of the first record whose username is the one in the caller's
\* token: the file written has the records of the file read, in the same
\* number and order, every other record unchanged, that record's username
\* and email unchanged; without a newPassword (absent or empty) no record
\* changes.
C5_UpdateFrame ==
    (resp.route = "update" /\ resp.status = 200) =>
        LET old == resp.req.users
            new == Records
        IN  /\ file.ok
            /\ Len(new) = Len(old)
            /\ ~resp.resumed => resp.req.username = Presented.username
            /\ \E i \in 1..Len(old) :
                  /\ FirstOf(old, i, resp.req.username)
                  /\ \A j \in 1..Len(old) : j # i => new[j] = old[j]
                  /\ new[i].username = old[i].username
                  /\ new[i].email = old[i].email
                  /\ Truthy(resp.req.newPassword) =>
                        Matches(resp.req.newPassword, new[i].password)
            /\ ~Truthy(resp.req.newPassword) => new = old

\* a password change is written to a file with two records of the caller
C5_Witness ==
    /\ resp.route = "update" /\ resp.status = 200 /\ resp.resumed
    /\ Len(Records) = 2
    /\ Records[1].username = Records[2].username
    /\ Records # resp.req.users

----------------------------------------------------------------------------
(* C6 *)

\* C6: once an update with a non-empty newPassword was answered 200 for
\* user u, and until the next such update for u, a login for u that reads
\* the file afterwards succeeds with newPassword and gets 400 with another
\* password (the previous one among them).
C6_LoginSeesLastUpdate ==
    (Answered("login") /\ resp.req.seen # Undefined) =>
       /\ resp.req.password = resp.req.seen => resp.status = 200
       /\ (IsString(resp.req.password) /\ resp.req.password # resp.req.seen)
             => resp.status = 400

----------------------------------------------------------------------------
(* C7 *)

\* the request just handled carried a token that /login issued
Genuine == HasToken /\ Presented.sig = JWT_SECRET

\* C7 as written: a token issued by /login is accepted at every time less
\* than one hour after it was issued and refused with 403 at every time
\* after that hour.
C7_ValidForOneHour ==
    (Gated /\ Genuine) =>
       /\ now - resp.req.issuedAt < Hour => Accepted
       /\ now - resp.req.issuedAt > Hour => resp.status = 403

\* C7 as amended: a token issued by /login is accepted whenever the clock,
\* in whole seconds, reads less than 3600 more than it read, in whole
\* seconds, when the token was issued (so at every time up to 59 min 59 s
\* after the issue, and not in all of the last second of the hour), and is
\* refused with 403 at every time one hour or more after it was issued;
\* nothing extends a token's lifetime.
C7_ValidForOneHourInWholeSeconds ==
    (Gated /\ Genuine) =>
       /\ (now \div MsPerSec) - (resp.req.issuedAt \div MsPerSec) < ExpiresIn
             => Accepted
       /\ now - resp.req.issuedAt >= Hour => resp.status = 403
       /\ Presented.exp = (resp.req.issuedAt \div MsPerSec) + ExpiresIn

\* a token is refused one hour or more after a login issued it
C7_Witness ==
    /\ Gated /\ Genuine
    /\ resp.status = 403
    /\ now - resp.req.issuedAt >= Hour
    /\ resp.req.issuedAt > 0

----------------------------------------------------------------------------
(* C8 *)

\* the answer to a valid token whose user has no record
C8_NotFound ==
    (resp.route = "update" /\ ~resp.resumed /\ Accepted
        /\ ~Known(Records, Presented.username))
    => /\ resp.status = 404
       /\ resp.message = "User not found"

\* a 404 leaves the file and the suspended handlers alone
C8_NoWrite == resp'.status = 404 => file' = file /\ pending' = pending

\* C8: PUT /update-profile with a valid token whose username has no record
\* in the file it reads is answered 404 'User not found' and the file is
\* not written.
C8_UnknownUserIs404 == []C8_NotFound /\ [][C8_NoWrite]_vars

\* a valid token of a user without a record, against a file with records
C8_Witness ==
    /\ resp.route = "update" /\ resp.status = 404
    /\ Len(Records) > 0
    /\ Truthy(resp.req.newPassword)

----------------------------------------------------------------------------
(* C9 *)

\* what the routes answer while the file cannot be read
C9_Empty ==
    ~file.ok =>
       /\ resp.route = "login" => resp.status = 400 /\ resp.token = NoJwt
       /\ (resp.route = "update" /\ Accepted) => resp.status = 404
       /\ \A u \in Usernames : pending[u] = Idle

\* an unreadable file stays as it is
C9_Kept == ~file.ok => file' = file

\* C9: while the user file is missing or cannot be parsed, readUsers gives
\* the empty list: every login gets 400, every update-profile that passes
\* the gate gets 404, and the unreadable file is never overwritten.
C9_UnreadableFile == []C9_Empty /\ [][C9_Kept]_vars

\* an update with a valid token against an unreadable file
C9_Witness ==
    /\ ~file.ok
    /\ resp.route = "update" /\ resp.status = 404

----------------------------------------------------------------------------
(* C10 *)

\* C10: whether a token is accepted depends on the token and the clock
\* alone, not on the file: a token of this server that has not expired is
\* accepted also after its user's password was changed and also when its
\* user has no record, and an update-profile called with it goes on to the
\* file (it is not turned away at the gate).
C10_AcceptanceIgnoresStore ==
    (Gated /\ Genuine /\ now < Presented.exp * MsPerSec) =>
       /\ Accepted
       /\ resp.route = "protected" =>
             resp.status = 200 /\ resp.payload = Presented
       /\ (resp.route = "update" /\ Known(Records, Presented.username)) =>
             IF Truthy(resp.req.newPassword)
             THEN resp.message = "await" /\ pending[Presented.username].kind = "update"
             ELSE resp.status = 200

\* a token issued before its user's password was changed is used to change
\* the password again
C10_Witness ==
    /\ resp.route = "update" /\ resp.message = "await"
    /\ resp.req.stale
    /\ pending[resp.req.username].req.newPassword # lastSet[resp.req.username]

============================================================================
